---- MODULE Spec2Model ----
(***************************************************************************)
(* Tic-tac-toe (src/main.cpp): the Board, the minimax AI, the Game session *)
(* (turn, terminal flag, winner, scores, mode) and the GUI's dispatch of   *)
(* clicks and keys onto the Game's commands.                               *)
(***************************************************************************)
EXTENDS Integers, Sequences, FiniteSets, TLC

\* ------------------------------------------------------------------ Board

\* Board::SIZE
SIZE == 3

\* std::numeric_limits<int>::min() / max()
INT_MIN == -2147483647 - 1
INT_MAX == 2147483647

\* enum class Cell { Empty, X, O }, by the enumerators' values
Empty == 0
X == 1
O == 2
Cell == {Empty, X, O}

\* std::optional<Cell> without a value (std::nullopt)
None == -1

\* the indices of std::array<Cell, SIZE*SIZE>
Indices == 0 .. (SIZE * SIZE - 1)

\* Board::Board() / Board::reset(): cells.fill(Cell::Empty)
reset == [i \in Indices |-> Empty]

\* Board::makeMove: marks cells[r*SIZE+c] iff it is Empty; the record holds
\* the array after the call and the bool the call returns.
makeMove(cells, r, c, player) ==
    IF cells[r * SIZE + c] = Empty
    THEN [cells |-> [cells EXCEPT ![r * SIZE + c] = player], ret |-> TRUE]
    ELSE [cells |-> cells, ret |-> FALSE]

\* Board::undoMove: clears the cell unconditionally
undoMove(cells, r, c) == [cells EXCEPT ![r * SIZE + c] = Empty]

\* Board::get
get(cells, r, c) == cells[r * SIZE + c]

\* the (r,c) pairs in the order of the two nested loops of availableMoves
ScanOrder == [i \in 1 .. SIZE * SIZE |-> <<(i - 1) \div SIZE, (i - 1) % SIZE>>]

\* availableMoves with both loops' first index off by one: the scan misses
\* row 0 and column 0
availableMovesFromOne(cells) ==
    SelectSeq(ScanOrder, LAMBDA m : /\ m[1] >= 1
                                     /\ m[2] >= 1
                                     /\ cells[m[1] * SIZE + m[2]] = Empty)

\* Board::availableMoves: the Empty cells, row-major
availableMoves(cells) ==
    SelectSeq(ScanOrder, LAMBDA m : cells[m[1] * SIZE + m[2]] = Empty)

\* Board::isFull
isFull(cells) == \A i \in Indices : cells[i] # Empty

\* Board::checkWinner: rows, then columns, then the two diagonals; the first
\* complete line in that order decides.
checkWinner(cells) ==
    LET rows == {r \in 0 .. SIZE - 1 :
                    /\ cells[r * SIZE] # Empty
                    /\ cells[r * SIZE] = cells[r * SIZE + 1]
                    /\ cells[r * SIZE] = cells[r * SIZE + 2]}
        cols == {c \in 0 .. SIZE - 1 :
                    /\ cells[c] # Empty
                    /\ cells[c] = cells[SIZE + c]
                    /\ cells[c] = cells[2 * SIZE + c]}
        first(S) == CHOOSE a \in S : \A y \in S : a <= y
    IN  IF rows # {} THEN cells[first(rows) * SIZE]
        ELSE IF cols # {} THEN cells[first(cols)]
        ELSE IF cells[0] # Empty /\ cells[0] = cells[4] /\ cells[0] = cells[8]
             THEN cells[0]
        ELSE IF cells[2] # Empty /\ cells[2] = cells[4] /\ cells[2] = cells[6]
             THEN cells[2]
        ELSE None

\* --------------------------------------------------------------------- AI

\* scoreForWinner with the two signs exchanged
scoreForWinnerSwapped(ai, human, winner) ==
    IF winner = ai THEN -10
    ELSE IF winner = human THEN 10
    ELSE 0

\* AI::scoreForWinner
scoreForWinner(ai, human, winner) ==
    IF winner = ai THEN 10
    ELSE IF winner = human THEN -10
    ELSE 0

\* std::max / std::min
max(a, b) == IF a < b THEN b ELSE a
min(a, b) == IF b < a THEN b ELSE a

\* A position is numbered by reading its nine cells as a base-3 numeral; the
\* results of AI::minimax are tabulated under that number and isMaximizing.
\* The code recomputes a call each time it is made; a call reads nothing but
\* the board, isMaximizing and the AI's two players (depth is passed on and
\* never read), so the tabulated result is the result of every such call.
boardNumber(cells) ==
    cells[0] + 3 * cells[1] + 9 * cells[2] + 27 * cells[3] + 81 * cells[4]
    + 243 * cells[5] + 729 * cells[6] + 2187 * cells[7] + 6561 * cells[8]
callKey(cells, isMaximizing) ==
    1 + 2 * boardNumber(cells) + (IF isMaximizing THEN 1 ELSE 0)
keyBoard(n) ==
    LET m == (n - 1) \div 2
    IN  [reset EXCEPT ![0] = m % 3, ![1] = (m \div 3) % 3, ![2] = (m \div 9) % 3,
                      ![3] = (m \div 27) % 3, ![4] = (m \div 81) % 3,
                      ![5] = (m \div 243) % 3, ![6] = (m \div 729) % 3,
                      ![7] = (m \div 2187) % 3, ![8] = (m \div 6561) % 3]
emptyCells(cells) == Cardinality({i \in Indices : cells[i] = Empty})

\* the numbers of the positions of d cells of which exactly k are Empty
RECURSIVE numbersWith(_, _)
numbersWith(d, k) ==
    IF k < 0 \/ k > d THEN {}
    ELSE IF d = 0 THEN {0}
    ELSE {3 * m + Empty : m \in numbersWith(d - 1, k - 1)}
         \cup {3 * m + X : m \in numbersWith(d - 1, k)}
         \cup {3 * m + O : m \in numbersWith(d - 1, k)}

\* the keys of the calls on a position with exactly k Empty cells
callKeys == [k \in 0 .. SIZE * SIZE |->
                {2 * m + 1 : m \in numbersWith(SIZE * SIZE, k)}
                \cup {2 * m + 2 : m \in numbersWith(SIZE * SIZE, k)}]

\* The for loop of one ply of AI::minimax, from the i-th available move on.
\* The board is taken by reference: each candidate is made on it, scored by
\* the recursive call (calls[...], the result of that call) and undone, so a
\* result is the score returned and the board as the call leaves it.
RECURSIVE minimaxLoop(_, _, _, _, _, _, _, _)

\* one iteration that takes std::max on both plies
minimaxStepMaxOnly(calls, ai, human, isMaximizing, moves, i, best, child) ==
    minimaxLoop(calls, ai, human, undoMove(child.board, moves[i][1], moves[i][2]),
                isMaximizing, moves, i + 1, max(best, child.score))

\* one iteration, given the result of its recursive call:
\* best = std::max/min(best, score), then board.undoMove
minimaxStep(calls, ai, human, isMaximizing, moves, i, best, child) ==
    minimaxLoop(calls, ai, human, undoMove(child.board, moves[i][1], moves[i][2]),
                isMaximizing, moves, i + 1,
                IF isMaximizing THEN max(best, child.score) ELSE min(best, child.score))

minimaxLoop(calls, ai, human, cells, isMaximizing, moves, i, best) ==
    IF i > Len(moves) THEN [score |-> best, board |-> cells]
    ELSE minimaxStep(calls, ai, human, isMaximizing, moves, i, best,
             calls[callKey(makeMove(cells, moves[i][1], moves[i][2],
                                    IF isMaximizing THEN ai ELSE human).cells,
                           ~isMaximizing)])

\* The body of AI::minimax, given the results of the calls it makes
minimaxBody(calls, ai, human, cells, isMaximizing) ==
    IF checkWinner(cells) # None
    THEN [score |-> scoreForWinner(ai, human, checkWinner(cells)), board |-> cells]
    ELSE IF isFull(cells) THEN [score |-> 0, board |-> cells]
    ELSE minimaxLoop(calls, ai, human, cells, isMaximizing, availableMoves(cells), 1,
                     IF isMaximizing THEN INT_MIN ELSE INT_MAX)

\* The results of AI::minimax on the positions with at most k Empty cells,
\* one table for each number of Empty cells: a call on a position with k
\* Empty cells only makes calls on positions with k - 1.
RECURSIVE minimaxUpTo(_, _, _)
minimaxUpTo(ai, human, k) ==
    IF k < 0 THEN <<>>
    ELSE LET below == minimaxUpTo(ai, human, k - 1)
         IN  Append(below,
                    [n \in callKeys[k] |->
                        minimaxBody(IF k = 0 THEN <<>> ELSE below[k], ai, human,
                                    keyBoard(n), (n - 1) % 2 = 1)] @@ <<>>)

\* the results of the calls of an AI(X, O) and of an AI(O, X)
minimaxResults == [ai \in {X, O} |-> minimaxUpTo(ai, X + O - ai, SIZE * SIZE)]

\* AI::minimax(board, depth, isMaximizing) of an AI(ai, human), human being
\* the other player
minimax(ai, human, cells, depth, isMaximizing) ==
    minimaxResults[ai][emptyCells(cells) + 1][callKey(cells, isMaximizing)]

\* the for loop of AI::findBestMove, from the i-th available move on
RECURSIVE findBestLoop(_, _, _, _, _, _, _)

\* one iteration without board.undoMove
findBestStepNoUndo(ai, human, moves, i, bestScore, bestMove, child) ==
    findBestLoop(ai, human, child.board, moves, i + 1,
                 IF child.score > bestScore THEN child.score ELSE bestScore,
                 IF child.score > bestScore THEN moves[i] ELSE bestMove)

\* one iteration with >= for >: it keeps the last move of the best score
findBestStepKeepsLast(ai, human, moves, i, bestScore, bestMove, child) ==
    findBestLoop(ai, human, undoMove(child.board, moves[i][1], moves[i][2]),
                 moves, i + 1,
                 IF child.score >= bestScore THEN child.score ELSE bestScore,
                 IF child.score >= bestScore THEN moves[i] ELSE bestMove)

\* one iteration, given the result of its minimax call: board.undoMove, then
\* the strict comparison, which keeps the first move of the best score
findBestStep(ai, human, moves, i, bestScore, bestMove, child) ==
    findBestLoop(ai, human, undoMove(child.board, moves[i][1], moves[i][2]),
                 moves, i + 1,
                 IF child.score > bestScore THEN child.score ELSE bestScore,
                 IF child.score > bestScore THEN moves[i] ELSE bestMove)

findBestLoop(ai, human, cells, moves, i, bestScore, bestMove) ==
    IF i > Len(moves)
    THEN [move |-> bestMove, score |-> bestScore, board |-> cells]
    ELSE findBestStep(ai, human, moves, i, bestScore, bestMove,
             minimax(ai, human, makeMove(cells, moves[i][1], moves[i][2], ai).cells,
                     0, FALSE))

\* findBestMove with bestMove initialised to {0,0}
findBestMoveRunFromOrigin(ai, human, cells) ==
    findBestLoop(ai, human, cells, availableMoves(cells), 1, INT_MIN, <<0, 0>>)

\* AI::findBestMove on its by-value copy of the board: the move returned, its
\* score, and the copy as the loop leaves it
findBestMoveRun(ai, human, cells) ==
    findBestLoop(ai, human, cells, availableMoves(cells), 1, INT_MIN, <<-1, -1>>)

\* AI::findBestMove
findBestMove(ai, human, cells) == findBestMoveRun(ai, human, cells).move

\* ------------------------------------------------------------------- Game

\* enum class Mode { HumanVsHuman, HumanVsAI }, by the enumerators' values
HumanVsHuman == 0
HumanVsAI == 1
Mode == {HumanVsHuman, HumanVsAI}

\* Game::Game(): the fields of a Game after construction. Its AI member is
\* AI(Cell::O, Cell::X).
NewGame ==
    [board |-> reset, current |-> X, mode |-> HumanVsAI, over |-> FALSE,
     winnerOpt |-> None, scoreX |-> 0, scoreO |-> 0]

\* Game::switchTurn
switchTurn(g) == [g EXCEPT !.current = IF @ = X THEN O ELSE X]

\* checkGameState that counts every win for X
checkGameStateCountsX(g) ==
    IF checkWinner(g.board) # None
    THEN [g EXCEPT !.over = TRUE,
                   !.winnerOpt = checkWinner(g.board),
                   !.scoreX = @ + 1]
    ELSE IF isFull(g.board)
         THEN [g EXCEPT !.over = TRUE, !.winnerOpt = None]
         ELSE g

\* checkGameState without the test of board.isFull()
checkGameStateNoDraw(g) ==
    IF checkWinner(g.board) # None
    THEN [g EXCEPT !.over = TRUE,
                   !.winnerOpt = checkWinner(g.board),
                   !.scoreX = IF checkWinner(g.board) = X THEN @ + 1 ELSE @,
                   !.scoreO = IF checkWinner(g.board) = X THEN @ ELSE @ + 1]
    ELSE g

\* Game::checkGameState
checkGameState(g) ==
    IF checkWinner(g.board) # None
    THEN [g EXCEPT !.over = TRUE,
                   !.winnerOpt = checkWinner(g.board),
                   !.scoreX = IF checkWinner(g.board) = X THEN @ + 1 ELSE @,
                   !.scoreO = IF checkWinner(g.board) = X THEN @ ELSE @ + 1]
    ELSE IF isFull(g.board)
         THEN [g EXCEPT !.over = TRUE, !.winnerOpt = None]
         ELSE g

\* checkGameState(); if (!over) switchTurn();
afterMove(g) ==
    IF checkGameState(g).over THEN checkGameState(g)
    ELSE switchTurn(checkGameState(g))

\* restart without current = Cell::X
restartKeepsTurn(g) ==
    [g EXCEPT !.board = reset, !.over = FALSE, !.winnerOpt = None]

\* Game::restart
restart(g) ==
    [g EXCEPT !.board = reset, !.current = X, !.over = FALSE, !.winnerOpt = None]

\* playMove without if (over) return false
playMoveIgnoresOver(g, r, c) ==
    IF get(g.board, r, c) # Empty THEN [game |-> g, ret |-> FALSE]
    ELSE [game |-> afterMove([g EXCEPT !.board =
                                 makeMove(g.board, r, c, g.current).cells]),
          ret |-> TRUE]

\* Game::playMove: the Game after the call and the bool the call returns
playMove(g, r, c) ==
    IF g.over THEN [game |-> g, ret |-> FALSE]
    ELSE IF get(g.board, r, c) # Empty THEN [game |-> g, ret |-> FALSE]
    ELSE [game |-> afterMove([g EXCEPT !.board =
                                 makeMove(g.board, r, c, g.current).cells]),
          ret |-> TRUE]

\* the rest of Game::aiMove once findBestMove has returned [r,c]
aiMovePlace(g, m) ==
    IF m[1] >= 0
    THEN afterMove([g EXCEPT !.board = makeMove(g.board, m[1], m[2], O).cells])
    ELSE g

\* aiMove without if (over) return
aiMoveIgnoresOver(g) == aiMovePlace(g, findBestMove(O, X, g.board))

\* Game::aiMove
aiMove(g) ==
    IF g.over THEN g
    ELSE aiMovePlace(g, findBestMove(O, X, g.board))

\* Game::setMode
setMode(g, m) == [g EXCEPT !.mode = m]

\* -------------------------------------------------------------------- GUI

\* GUI::cellSize = 600 / Board::SIZE
cellSize == 200

\* toggleMode without game.restart()
toggleModeSetsModeOnly(g) ==
    setMode(g, IF g.mode = HumanVsHuman THEN HumanVsAI ELSE HumanVsHuman)

\* GUI::toggleMode
toggleMode(g) ==
    restart(setMode(g, IF g.mode = HumanVsHuman THEN HumanVsAI ELSE HumanVsHuman))

\* GUI::handleBottomClick: the two button rectangles, tested one after the other
handleBottomClick(g, mx, my) ==
    LET g1 == IF mx >= 50 /\ mx <= 250 /\ my >= 610 /\ my <= 660
              THEN restart(g) ELSE g
    IN  IF mx >= 350 /\ mx <= 550 /\ my >= 610 /\ my <= 660
        THEN toggleMode(g1) ELSE g1

\* GUI::handleEvents, a human click on cell (r,c) in the mode HumanVsAI: the
\* computer answers in the same event
clickVsAI(g, r, c) ==
    IF g.current = X
    THEN IF playMove(g, r, c).ret
         THEN IF ~playMove(g, r, c).game.over
              THEN aiMove(playMove(g, r, c).game)
              ELSE playMove(g, r, c).game
         ELSE playMove(g, r, c).game
    ELSE g

\* GUI::handleEvents, sf::Event::MouseButtonPressed with the left button at
\* (mx, my)
mousePressed(g, mx, my) ==
    IF my <= 600
    THEN IF g.mode = HumanVsHuman
         THEN playMove(g, my \div cellSize, mx \div cellSize).game
         ELSE clickVsAI(g, my \div cellSize, mx \div cellSize)
    ELSE handleBottomClick(g, mx, my)

\* Game::playMove(r, c) with r*SIZE+c outside the array, as handleEvents calls
\* it for a click at my = 600 (r = 3): board.get reads, and board.makeMove
\* writes, past the end of cells, which has no defined outcome. The outcomes
\* are: the call returns at `if (over)` before any access; the read gives a
\* value other than Empty and the call returns false; the read gives Empty
\* and the write of current lands on nothing the Game reads again; or the
\* location is the field mode (it follows cells and current in Game, and
\* HumanVsHuman has the value of Empty), which then holds the value of
\* current. In the last two checkGameState and switchTurn run and the call
\* returns true.
playMoveOutside(g) ==
    IF g.over THEN {[game |-> g, ret |-> FALSE]}
    ELSE {[game |-> g, ret |-> FALSE],
          [game |-> afterMove(g), ret |-> TRUE]}
         \cup (IF g.mode = HumanVsHuman
               THEN {[game |-> afterMove([g EXCEPT !.mode = g.current]), ret |-> TRUE]}
               ELSE {})

\* the (r,c) pairs GUI::handleEvents passes to Game::playMove for a left
\* click at (mx, my)
playArgsOf(g, mx, my) ==
    IF my <= 600 /\ (g.mode = HumanVsHuman \/ g.current = X)
    THEN {<<my \div cellSize, mx \div cellSize>>}
    ELSE {}

\* GUI::handleEvents, sf::Event::MouseButtonPressed with the left button at
\* (mx, my): the Games the handler can leave
mousePressedOutcomes(g, mx, my) ==
    IF \E rc \in playArgsOf(g, mx, my) : rc[1] * SIZE + rc[2] \notin Indices
    THEN IF g.mode = HumanVsHuman
         THEN {o.game : o \in playMoveOutside(g)}
         ELSE {IF o.ret /\ ~o.game.over THEN aiMove(o.game) ELSE o.game :
                  o \in playMoveOutside(g)}
    ELSE {mousePressed(g, mx, my)}

\* ------------------------------------------------------------ the session

VARIABLES
    board,      \* Game::board.cells
    current,    \* Game::current
    mode,       \* Game::mode
    over,       \* Game::over
    winnerOpt,  \* Game::winnerOpt
    scoreX,     \* Game::scoreX
    scoreO,     \* Game::scoreO
    started,    \* the static bool started of GUI::update
    lastOp,     \* the command or event handled last
    lastRet,    \* what that command returned: playMove's bool, None otherwise
    found       \* what the last findBestMove called on its own returned

gameVars == <<board, current, mode, over, winnerOpt, scoreX, scoreO>>
vars == <<board, current, mode, over, winnerOpt, scoreX, scoreO,
          started, lastOp, lastRet, found>>

\* the Game object as a record of its fields
game ==
    [board |-> board, current |-> current, mode |-> mode, over |-> over,
     winnerOpt |-> winnerOpt, scoreX |-> scoreX, scoreO |-> scoreO]

\* the scores counted up to
MaxScore == 1

\* the fields of the Game become those of g
becomes(g) ==
    /\ g.scoreX <= MaxScore
    /\ g.scoreO <= MaxScore
    /\ board' = g.board
    /\ current' = g.current
    /\ mode' = g.mode
    /\ over' = g.over
    /\ winnerOpt' = g.winnerOpt
    /\ scoreX' = g.scoreX
    /\ scoreO' = g.scoreO

\* main(): Game game; GUI gui(game);
Init ==
    /\ board = NewGame.board
    /\ current = NewGame.current
    /\ mode = NewGame.mode
    /\ over = NewGame.over
    /\ winnerOpt = NewGame.winnerOpt
    /\ scoreX = NewGame.scoreX
    /\ scoreO = NewGame.scoreO
    /\ started = FALSE
    /\ lastOp = "init"
    /\ lastRet = None
    /\ found = None

\* how far outside [0, SIZE) the arguments of playMove range
ArgSpan == 1

\* The arguments playMove is called with: every (r,c) of the range whose
\* index r*SIZE+c lies in the array. (An index outside the array is an access
\* outside the object, which has no defined outcome.)
PlayArgs ==
    {rc \in ((0 - ArgSpan) .. (SIZE - 1 + ArgSpan)) \X ((0 - ArgSpan) .. (SIZE - 1 + ArgSpan)) :
        rc[1] * SIZE + rc[2] \in Indices}

InRange(r, c) == r \in 0 .. SIZE - 1 /\ c \in 0 .. SIZE - 1

\* the command game.playMove(r, c)
PlayMove(r, c) ==
    /\ becomes(playMove(game, r, c).game)
    /\ lastOp' = "playMove"
    /\ lastRet' = playMove(game, r, c).ret
    /\ UNCHANGED <<started, found>>

\* the command game.aiMove()
AiMove ==
    /\ becomes(aiMove(game))
    /\ lastOp' = "aiMove"
    /\ lastRet' = None
    /\ UNCHANGED <<started, found>>

\* the command game.restart()
Restart ==
    /\ becomes(restart(game))
    /\ lastOp' = "restart"
    /\ lastRet' = None
    /\ UNCHANGED <<started, found>>

\* the command game.setMode(m)
SetMode(m) ==
    /\ becomes(setMode(game, m))
    /\ lastOp' = "setMode"
    /\ lastRet' = None
    /\ UNCHANGED <<started, found>>

\* the pixels a click is sampled at: one column of pixels in each column of
\* cells (100 in the Restart button, 450 in the Toggle button), one row of
\* pixels in each row of cells, the buttons' rows and the rows below them
ClickXs == {100, 300, 450}
ClickYs == {0, 200, 599, 630, 699}

\* GUI::handleEvents, a left click at (mx, my)
MousePressed(mx, my) ==
    /\ \E g \in mousePressedOutcomes(game, mx, my) : becomes(g)
    /\ lastOp' = "click"
    /\ lastRet' = None
    /\ UNCHANGED <<started, found>>

\* GUI::handleEvents, sf::Keyboard::R
KeyR ==
    /\ becomes(restart(game))
    /\ lastOp' = "keyR"
    /\ lastRet' = None
    /\ UNCHANGED <<started, found>>

\* GUI::handleEvents, sf::Keyboard::M
KeyM ==
    /\ becomes(toggleMode(game))
    /\ lastOp' = "keyM"
    /\ lastRet' = None
    /\ UNCHANGED <<started, found>>

\* GUI::update, called once a frame; elapsed says whether the cooldown clock
\* shows more than 300 ms (it was restarted in the call that set started)
Update(elapsed) ==
    /\ IF mode = HumanVsAI /\ ~over /\ current = O
       THEN IF ~started
            THEN started' = TRUE /\ UNCHANGED gameVars
            ELSE IF elapsed
                 THEN becomes(aiMove(game)) /\ started' = FALSE
                 ELSE UNCHANGED <<gameVars, started>>
       ELSE UNCHANGED <<gameVars, started>>
    /\ lastOp' = "update"
    /\ lastRet' = None
    /\ UNCHANGED found

\* the events of the GUI's loop
GuiNext ==
    \/ \E mx \in ClickXs, my \in ClickYs : MousePressed(mx, my)
    \/ KeyR
    \/ KeyM
    \/ \E elapsed \in BOOLEAN : Update(elapsed)

\* the program: main() runs the GUI on a new Game
SpecGUI == Init /\ [][GuiNext]_vars

\* a left click on an Empty cell of a round in progress
ClickEmpty ==
    \E mx \in ClickXs, my \in ClickYs :
        /\ my < SIZE * cellSize
        /\ ~over
        /\ board[(my \div cellSize) * SIZE + (mx \div cellSize)] = Empty
        /\ MousePressed(mx, my)

\* The GUI's loop when the clicks on Empty cells keep coming (window.pollEvent
\* hands every pending click to handleEvents): weak fairness of ClickEmpty,
\* WF_vars(ClickEmpty), written out with what enables ClickEmpty, a round in
\* progress; the bound on the scores, which is not the program's, does not
\* count as disabling a click.
SpecGUIFair == SpecGUI /\ ([]<>over \/ []<><<ClickEmpty>>_vars)

\* the rows of pixels of the whole window: those above and the row my = 600,
\* the last one handleEvents takes for a row of cells
WindowYs == ClickYs \cup {600}

\* the test of GUI::update: the computer is to move
updateGuard == mode = HumanVsAI /\ ~over /\ current = O

\* the rounds won are counted up to MaxScore in all
withinScores == scoreX' + scoreO' <= MaxScore

\* The events of the GUI's loop, with clicks anywhere in the window. The
\* calls of update that find their test false change nothing of the program
\* and are left out as steps.
WindowNext ==
    \/ \E mx \in ClickXs, my \in WindowYs : MousePressed(mx, my) /\ withinScores
    \/ KeyR
    \/ KeyM
    \/ \E elapsed \in BOOLEAN : updateGuard /\ Update(elapsed) /\ withinScores

SpecWindow == Init /\ [][WindowNext]_vars

\* the commands of the Game called in any order, and the GUI's mode toggle
Next ==
    \/ \E rc \in PlayArgs : PlayMove(rc[1], rc[2])
    \/ AiMove
    \/ Restart
    \/ \E m \in Mode : SetMode(m)
    \/ KeyM

Spec == Init /\ [][Next]_vars

\* ------------------------------------------------- the search on its own

\* AI::findBestMove is public and takes its board by value: it can be called
\* with every content of the nine cells, by an AI(X, O) or an AI(O, X). Here
\* board is the argument and current the AI's own player.
SearchInit ==
    /\ board \in [Indices -> Cell]
    /\ current \in {X, O}
    /\ mode = NewGame.mode
    /\ over = FALSE
    /\ winnerOpt = None
    /\ scoreX = 0
    /\ scoreO = 0
    /\ started = FALSE
    /\ lastOp = "init"
    /\ lastRet = None
    /\ found = None

\* the call AI(current, other).findBestMove(board)
FindBestMove ==
    /\ lastOp = "init"
    /\ found' = findBestMoveRun(current, X + O - current, board)
    /\ lastOp' = "findBestMove"
    /\ UNCHANGED <<gameVars, started, lastRet>>

\* the call game.aiMove() of a Game holding that board, in progress
SearchAiMove ==
    /\ lastOp = "init"
    /\ AiMove

SearchNext ==
    \/ FindBestMove
    \/ SearchAiMove

SpecAI == SearchInit /\ [][SearchNext]_vars

\* -------------------------------------------------- the Board on its own

\* Board's makeMove and undoMove are public: they can be called on every
\* content of the nine cells.
BoardInit ==
    /\ board \in [Indices -> Cell]
    /\ current = NewGame.current
    /\ mode = NewGame.mode
    /\ over = FALSE
    /\ winnerOpt = None
    /\ scoreX = 0
    /\ scoreO = 0
    /\ started = FALSE
    /\ lastOp = "init"
    /\ lastRet = None
    /\ found = None

\* the calls board.makeMove(r, c, p); board.undoMove(r, c); one after the
\* other; lastRet is what makeMove returned
MakeThenUndo(r, c, p) ==
    /\ lastOp = "init"
    /\ board' = undoMove(makeMove(board, r, c, p).cells, r, c)
    /\ lastRet' = makeMove(board, r, c, p).ret
    /\ lastOp' = "makeThenUndo"
    /\ UNCHANGED <<current, mode, over, winnerOpt, scoreX, scoreO, started, found>>

BoardNext ==
    \E r \in 0 .. SIZE - 1, c \in 0 .. SIZE - 1, p \in {X, O} : MakeThenUndo(r, c, p)

SpecBoard == BoardInit /\ [][BoardNext]_vars

\* ------------------------------------------------------------- the claims

\* the eight lines of the grid, by the indices of their cells
Lines ==
    {{0, 1, 2}, {3, 4, 5}, {6, 7, 8}, {0, 3, 6}, {1, 4, 7}, {2, 5, 8},
     {0, 4, 8}, {2, 4, 6}}

\* player p has a complete line on the cells
HasLine(cells, p) == \E l \in Lines : \A i \in l : cells[i] = p

\* the last transition was a move that placed a mark
Placed ==
    /\ lastOp' \in {"playMove", "aiMove"}
    /\ board' # board

\* C1: in the mode HumanVsAI, whatever cells the human clicks, no round ends
\* with the winner X, and scoreX does not grow while the mode stays HumanVsAI.
C1_ComputerNeverLoses ==
    [][/\ mode' = HumanVsAI => winnerOpt' # X
       /\ (mode = HumanVsAI /\ mode' = HumanVsAI) => scoreX' = scoreX]_vars

\* a round against the computer that the human's clicks brought to a draw
C1_Witness ==
    /\ mode = HumanVsAI
    /\ lastOp = "click"
    /\ over
    /\ winnerOpt = None
    /\ isFull(board)

\* C2: playMove(r,c) with (r,c) in range returns false and changes nothing
\* of the session when the game is over or the cell is not Empty, and
\* returns true only when the game is in progress and the cell is Empty.
C2_PlayMoveRejects ==
    \A r \in 0 .. SIZE - 1, c \in 0 .. SIZE - 1 :
        IF over \/ board[r * SIZE + c] # Empty
        THEN playMove(game, r, c).ret = FALSE /\ playMove(game, r, c).game = game
        ELSE playMove(game, r, c).ret = TRUE

\* a playMove on a finished round has returned false
C2_Witness ==
    /\ lastOp = "playMove"
    /\ lastRet = FALSE
    /\ over

\* C3: a playMove whose row or column is outside [0,3) returns failure and
\* marks no cell.
C3_OutOfRangeRejected ==
    [][\A rc \in PlayArgs :
          (~InRange(rc[1], rc[2]) /\ PlayMove(rc[1], rc[2]))
              => (lastRet' = FALSE /\ board' = board)]_vars

\* C4: after every move that placed a mark: a complete line of p ends the
\* round with winner p, p's score one higher, the other score and the turn
\* as they were; else a full board ends it with no winner and the scores as
\* they were; else the round goes on, the scores as they were, the turn
\* with the other player.
C4_TerminalEvaluation ==
    [][Placed =>
          IF HasLine(board', X) \/ HasLine(board', O)
          THEN /\ over'
               /\ winnerOpt' \in {X, O}
               /\ HasLine(board', winnerOpt')
               /\ scoreX' = scoreX + (IF winnerOpt' = X THEN 1 ELSE 0)
               /\ scoreO' = scoreO + (IF winnerOpt' = O THEN 1 ELSE 0)
               /\ current' = current
          ELSE IF \A i \in Indices : board'[i] # Empty
               THEN /\ over'
                    /\ winnerOpt' = None
                    /\ scoreX' = scoreX
                    /\ scoreO' = scoreO
               ELSE /\ ~over'
                    /\ scoreX' = scoreX
                    /\ scoreO' = scoreO
                    /\ current' # current
                    /\ current' \in {X, O}]_vars

\* a move has just completed a line of X
C4_Witness ==
    /\ lastOp = "playMove"
    /\ lastRet = TRUE
    /\ over
    /\ winnerOpt = X
    /\ scoreX = 1

\* C5: restart() from any state gives nine Empty cells, the turn X, over
\* false and no winner, and leaves both scores and the mode as they were.
C5_Restart ==
    [][lastOp' = "restart" =>
          /\ board' = [i \in Indices |-> Empty]
          /\ current' = X
          /\ ~over'
          /\ winnerOpt' = None
          /\ scoreX' = scoreX
          /\ scoreO' = scoreO
          /\ mode' = mode]_vars

\* a restart after a round that was won
C5_Witness ==
    /\ lastOp = "restart"
    /\ scoreX + scoreO > 0

\* C6, as claimed: whenever the mode changes (setMode or toggleMode), the
\* board is empty right after, the turn X, over false, no winner, and the
\* scores are as they were.
C6_ModeChangeRestarts ==
    [][mode' # mode =>
          /\ board' = [i \in Indices |-> Empty]
          /\ current' = X
          /\ ~over'
          /\ winnerOpt' = None
          /\ scoreX' = scoreX
          /\ scoreO' = scoreO]_vars

\* C6, amended: the GUI's toggleMode changes the mode and restarts the round
\* keeping the scores; Game::setMode on its own sets the mode and leaves
\* board, turn, over, winner and scores as they were.
C6_ToggleRestarts ==
    [][/\ lastOp' = "keyM" =>
              /\ mode' # mode
              /\ board' = [i \in Indices |-> Empty]
              /\ current' = X
              /\ ~over'
              /\ winnerOpt' = None
              /\ scoreX' = scoreX
              /\ scoreO' = scoreO
       /\ lastOp' = "setMode" =>
              UNCHANGED <<board, current, over, winnerOpt, scoreX, scoreO>>]_vars

\* the mode was toggled after a round that was won
C6_Witness ==
    /\ lastOp = "keyM"
    /\ scoreX + scoreO > 0

\* C7: aiMove() called when the game is over or when the turn is X places no
\* mark and changes nothing of the session.
C7_AiMoveOnlyOnItsTurn ==
    [][(lastOp' = "aiMove" /\ (over \/ current = X)) => UNCHANGED gameVars]_vars

\* the exhaustive minimax value of a position for self, by definition: +10
\* when self has a line, -10 when the opponent has one, 0 on a full board,
\* else the best value over the Empty cells for the player to move
RECURSIVE refValue(_, _, _, _)
refValue(self, opp, cells, selfToMove) ==
    LET free == {i \in Indices : cells[i] = Empty}
        vals == {refValue(self, opp,
                          [cells EXCEPT ![i] = IF selfToMove THEN self ELSE opp],
                          ~selfToMove) : i \in free}
    IN  IF HasLine(cells, self) THEN 10
        ELSE IF HasLine(cells, opp) THEN -10
        ELSE IF free = {} THEN 0
        ELSE IF selfToMove THEN CHOOSE v \in vals : \A w \in vals : w <= v
        ELSE CHOOSE v \in vals : \A w \in vals : v <= w

\* the value of marking cell i for self: the opponent moves next
cellValue(self, cells, i) ==
    refValue(self, X + O - self, [cells EXCEPT ![i] = self], FALSE)

\* the first Empty cell in row-major order whose value is the largest
firstBestCell(self, cells) ==
    LET free == {i \in Indices : cells[i] = Empty}
        best == {i \in free : \A j \in free :
                     cellValue(self, cells, j) <= cellValue(self, cells, i)}
    IN  CHOOSE i \in best : \A j \in best : i <= j

\* the number of Empty cells up to which the reference values are computed
MaxRefEmpty == 5

\* what C8 says of one finished call of findBestMove
C8_Body ==
    /\ found.move = <<firstBestCell(current, board) \div SIZE,
                      firstBestCell(current, board) % SIZE>>
    /\ found.score \in {-10, 0, 10}
    /\ \A i \in {j \in Indices : board[j] = Empty} :
           minimax(current, X + O - current, [board EXCEPT ![i] = current],
                   0, FALSE).score \in {-10, 0, 10}

C9_Board ==
    [i \in Indices |-> IF i \in {0, 1} THEN X ELSE IF i \in {3, 4} THEN O ELSE Empty]

\* C9: on that board an AI(X, O) returns (0,2), completing X's top row.
C9_CompletesTopRow ==
    (lastOp = "findBestMove" /\ board = C9_Board /\ current = X)
        => found.move = <<0, 2>>

\* the call on that board has returned
C9_Witness ==
    /\ lastOp = "findBestMove"
    /\ board = C9_Board
    /\ current = X
    /\ found.score = 10

\* C10: on the empty board findBestMove returns a corner or the center, and
\* the same cell on every invocation: the call leaves its board as it found
\* it, and a second call on the board it leaves returns the same cell.
C10_CornerOrCenter ==
    (lastOp = "findBestMove" /\ board = [i \in Indices |-> Empty])
        => /\ found.move \in {<<0, 0>>, <<0, 2>>, <<2, 0>>, <<2, 2>>, <<1, 1>>}
           /\ found.board = board
           /\ findBestMove(current, X + O - current, found.board) = found.move

\* the call on the empty board has returned, for the player who moves first
C10_Witness ==
    /\ lastOp = "findBestMove"
    /\ board = [i \in Indices |-> Empty]
    /\ current = X
    /\ found.score = 0

\* C11: findBestMove returns (-1,-1) exactly when the board has no Empty
\* cell, and otherwise an Empty cell of the board; an aiMove whose search
\* returns (-1,-1) places no mark and changes nothing of the session.
C11_SentinelIffFull ==
    [][/\ lastOp' = "findBestMove" =>
              /\ found'.move = <<-1, -1>> <=> (\A i \in Indices : board[i] # Empty)
              /\ (\E i \in Indices : board[i] = Empty) =>
                     /\ InRange(found'.move[1], found'.move[2])
                     /\ board[found'.move[1] * SIZE + found'.move[2]] = Empty
       /\ (lastOp' = "aiMove" /\ findBestMove(O, X, board) = <<-1, -1>>) =>
              UNCHANGED gameVars]_vars

\* aiMove was called on a full board of a game in progress
C11_Witness ==
    /\ lastOp = "aiMove"
    /\ ~over
    /\ \A i \in Indices : board[i] # Empty

\* C12: on every board, for every cell in range and every player, makeMove
\* followed at once by undoMove on the same cell leaves the nine cells as
\* they were before the move.
C12_MakeUndoRestores ==
    [][lastOp' = "makeThenUndo" => board' = board]_vars

\* C13: findBestMove leaves its working board equal to the input board: each
\* minimax call returns with the board as it was handed to it, the undo
\* after each candidate gives the input board back, and so does the whole
\* loop; the session's board is not changed by findBestMove; and aiMove
\* changes at most one cell of the session's board, from Empty to O.
C13_SearchRestoresBoard ==
    [][/\ lastOp' = "findBestMove" =>
              /\ board' = board
              /\ found'.board = board
              /\ \A b \in BOOLEAN :
                     minimax(current, X + O - current, board, 0, b).board = board
              /\ \A i \in {j \in Indices : board[j] = Empty} :
                     /\ minimax(current, X + O - current,
                                [board EXCEPT ![i] = current], 0, FALSE).board
                            = [board EXCEPT ![i] = current]
                     /\ undoMove(minimax(current, X + O - current,
                                         [board EXCEPT ![i] = current], 0, FALSE).board,
                                 i \div SIZE, i % SIZE) = board
       /\ lastOp' = "aiMove" =>
              /\ Cardinality({i \in Indices : board'[i] # board[i]}) <= 1
              /\ \A i \in Indices :
                     board'[i] # board[i] => (board[i] = Empty /\ board'[i] = O)]_vars

\* the search has returned on a board with eight Empty cells
C13_Witness ==
    /\ lastOp = "findBestMove"
    /\ current = O
    /\ board = [i \in Indices |-> IF i = 4 THEN X ELSE Empty]
    /\ found.board = board
    /\ found.move # <<-1, -1>>

\* C14: no reachable board holds a complete line of X and a complete line of
\* O at once, so checkWinner returns the one player who has a line whatever
\* the order of its scan, and no player when there is no line.
C14_OneWinnerAtMost ==
    /\ ~(HasLine(board, X) /\ HasLine(board, O))
    /\ \A p \in {X, O} : HasLine(board, p) <=> checkWinner(board) = p

\* a round that a line of O has ended
C14_Witness ==
    /\ HasLine(board, O)
    /\ winnerOpt = O
    /\ over

\* the number of cells holding p
count(cells, p) == Cardinality({i \in Indices : cells[i] = p})

\* C15: in every state the GUI's events lead to, the marks alternate
\* starting with X (count(X) - count(O) is 0 or 1) and, while the round is
\* in progress, the turn is X exactly when count(X) = count(O); the marks on
\* the board are the moves made since the last restart: an event leaves the
\* board, or empties it, or adds the one mark of a move, or the two marks of
\* a click and the computer's answer.
C15_MarksAlternate ==
    [][/\ count(board', X) - count(board', O) \in {0, 1}
       /\ ~over' => (current' = X <=> count(board', X) = count(board', O))
       /\ \/ board' = board
          \/ board' = [i \in Indices |-> Empty]
          \/ \E i \in Indices, p \in {X, O} :
                 board[i] = Empty /\ board' = [board EXCEPT ![i] = p]
          \/ \E i, j \in Indices :
                 /\ i # j /\ board[i] = Empty /\ board[j] = Empty
                 /\ board' = [board EXCEPT ![i] = X, ![j] = O]]_vars

\* C16: over holds exactly when the board has a complete line or is full;
\* when over, the winner is the player of the line, or none if there is no
\* line; when not over there is no winner. Once over, the board, the winner
\* and both scores stay as they are until a restart or a mode toggle (the
\* steps that end with over false), and the two scores together grow by one
\* at most in a round: only in the step that sets over.
C16_TerminalAgreesWithBoard ==
    [][/\ over' <=> (\/ HasLine(board', X)
                     \/ HasLine(board', O)
                     \/ \A i \in Indices : board'[i] # Empty)
       /\ \A p \in {X, O} : (over' /\ HasLine(board', p)) => winnerOpt' = p
       /\ (over' /\ ~HasLine(board', X) /\ ~HasLine(board', O)) => winnerOpt' = None
       /\ ~over' => winnerOpt' = None
       /\ (over /\ over') => UNCHANGED <<board, winnerOpt, scoreX, scoreO>>
       /\ scoreX' + scoreO' \in {scoreX + scoreO, scoreX + scoreO + 1}
       /\ scoreX' + scoreO' = scoreX + scoreO + 1 => (~over /\ over')]_vars

\* a playMove on a round that X had won returned false
C16_Witness ==
    /\ lastOp = "playMove"
    /\ lastRet = FALSE
    /\ over
    /\ winnerOpt = X
    /\ scoreX = 1
    /\ \E i \in Indices : board[i] = Empty

\* C17: for every left click in the window, each (row, col) handleEvents
\* passes to playMove has 0 <= row < 3 and 0 <= col < 3, so that the index
\* row*3+col of the board access is in 0..8.
C17_ClickArgsInRange ==
    [][\A mx \in ClickXs, my \in WindowYs :
          MousePressed(mx, my) =>
              \A rc \in playArgsOf(game, mx, my) :
                  /\ InRange(rc[1], rc[2])
                  /\ rc[1] * SIZE + rc[2] \in Indices]_vars

\* the Empty cells that complete a line of p when p marks them
winningCells(cells, p) ==
    {i \in Indices : cells[i] = Empty /\ HasLine([cells EXCEPT ![i] = p], p)}

\* a legal position with self = current to move, no line complete, and an
\* Empty cell that would complete a line of self, on which findBestMove has
\* returned
C18_Case ==
    /\ lastOp = "findBestMove"
    /\ ~HasLine(board, X)
    /\ ~HasLine(board, O)
    /\ count(board, X + O - current) - count(board, current) \in {0, 1}
    /\ winningCells(board, current) # {}

\* C18, as claimed: in such a position findBestMove returns a cell that
\* completes a line of self.
C18_TakesImmediateWin ==
    C18_Case =>
        found.move[1] * SIZE + found.move[2] \in winningCells(board, current)

\* C18, amended: in such a position findBestMove returns an Empty cell of
\* value +10, from which self wins whatever the opponent replies: a cell
\* that completes a line of self, or a cell that comes before all of those
\* in scan order.
C18_TakesForcedWin ==
    C18_Case =>
        /\ found.score = 10
        /\ InRange(found.move[1], found.move[2])
        /\ board[found.move[1] * SIZE + found.move[2]] = Empty
        /\ cellValue(current, board, found.move[1] * SIZE + found.move[2]) = 10
        /\ \/ found.move[1] * SIZE + found.move[2] \in winningCells(board, current)
           \/ \A i \in winningCells(board, current) :
                  found.move[1] * SIZE + found.move[2] < i

\* findBestMove has returned a cell that wins later although another wins
\* at once
C18_Witness ==
    /\ C18_Case
    /\ found.score = 10
    /\ found.move[1] * SIZE + found.move[2] \notin winningCells(board, current)

\* C19: in the mode HumanVsAI, after every event handleEvents has handled,
\* the round is over or the turn is X with as many X as O on the board; so
\* the guard of GUI::update (HumanVsAI, not over, turn O) never holds and
\* update never calls aiMove: its steps change nothing of the Game.
C19_ReplyWithinTheClick ==
    [][/\ mode' = HumanVsAI =>
              \/ over'
              \/ current' = X /\ count(board', X) = count(board', O)
       /\ ~(mode' = HumanVsAI /\ ~over' /\ current' = O)
       /\ lastOp' = "update" => UNCHANGED <<gameVars, started>>]_vars

\* C20: every round terminates. A mark is only ever placed on an Empty cell
\* (so at most nine are placed between two restarts), a full board always
\* has over set, and from every state in progress, in either mode, when the
\* clicks on Empty cells keep being handled, the session reaches over, or
\* the empty board of a restart or a mode toggle.
C20_RoundTerminates ==
    /\ []((\A i \in Indices : board[i] # Empty) => over)
    /\ [][\/ board' = [i \in Indices |-> Empty]
          \/ \A i \in Indices : board'[i] # board[i] => board[i] = Empty]_vars
    /\ (~over) ~> (over \/ board = [i \in Indices |-> Empty])

\* a round between two humans that ended on a full board with no line
C20_Witness ==
    /\ mode = HumanVsHuman
    /\ over
    /\ winnerOpt = None
    /\ \A i \in Indices : board[i] # Empty
====
